---- MODULE Spec2Model ----
(***************************************************************************)
(* A model of the COD-RAG endpoints and of the JSONL import script.        *)
(*                                                                         *)
(* One Node process hosts one endpoint module (api/rag.js,                 *)
(* api/mongodb-status.js, api/kag.js, api/kag-search.js, api/streaming.js) *)
(* and runs NumReq invocations of its exported handler.  A handler runs    *)
(* atomically from one await to the next, so every action below is the     *)
(* code between two awaits; invocations interleave at the awaits.          *)
(* The outcome of every external call (MongoDB, the Fireworks API) is a    *)
(* nondeterministic input of the action that resumes after it.             *)
(***************************************************************************)
EXTENDS Integers, Sequences, FiniteSets

\* Bounds of the model.
NumReq == 2
MaxChunks == 2
MaxInserts == 2

Reqs == 1..NumReq

\* `let cachedDb = null`: the value of an empty cache.  A database handle is
\* named by the invocation whose MongoClient produced it.
NoDb == 0

Endpoints == {"rag", "mongodb-status", "kag", "kag-search", "streaming"}
CachingEndpoints == {"rag", "mongodb-status", "kag"}
Methods == {"OPTIONS", "GET", "POST"}
\* req.body: a string that is not JSON, null/undefined, an object without a
\* query, an object whose query is not a string, an object with a query.
Bodies == {"malformed", "null", "noQuery", "numQuery", "query"}

VARIABLES
  endpoint,       \* the module this process hosts
  env,            \* process.env: is FIREWORKS_API_KEY / MONGODB_URI set
  cachedDb,       \* module-level cachedDb
  cachedClient,   \* module-level cachedClient (rag.js)
  firstDb,        \* history: the handle of the first successful connect
  client,         \* per invocation: the MongoClient it constructed
  pc,             \* per invocation: the await it is suspended at
  db,             \* per invocation: what connectToDatabase returned
  hit,            \* history: connectToDatabase found cachedDb set
  usedFallback,   \* rag.js local
  queryEmbedding, \* rag.js local: "unset", "undefined" or "vector"
  queryResult,    \* rag.js local: "empty" or "docs"
  calls,          \* history: the external calls issued, in order
  succeeded,      \* history: the calls that completed without throwing
  prompt,         \* the system message sent to the chat model
  res,            \* the HTTP response
  written,        \* streaming.js: the res.write calls, in order
  delivered,      \* history: the body chunks the upstream stream emitted
  upstream,       \* streaming.js: state of response.body
  script,         \* import: which import script runs
  ipc,            \* import: position in importData
  importedCount, errorCount, \* import-to-mongodb.js locals
  batch,          \* import: batch.length
  count,          \* import (part_000): count
  insertCalls,    \* history: number of insertMany calls
  lastInsert,     \* history: size of the latest insertMany argument
  run,            \* import: the client, the index, and whether the user declined
  text            \* kag-processor inputs and result

cacheVars == <<cachedDb, cachedClient, firstDb, client>>
ragVars == <<usedFallback, queryEmbedding, queryResult, prompt>>
streamVars == <<written, delivered, upstream>>
importVars == <<script, ipc, importedCount, errorCount, batch, count,
                insertCalls, lastInsert, run>>
serverVars == <<endpoint, env, cachedDb, cachedClient, firstDb, client, pc, db,
                hit, usedFallback, queryEmbedding, queryResult, calls,
                succeeded, prompt, res, written, delivered, upstream>>
vars == <<serverVars, importVars, text>>

----------------------------------------------------------------------------
\* The HTTP response object.  statusCode is 200 until res.status() sets it;
\* ends counts the calls that end the response (res.json, res.end).

NoRes == [status |-> 200, body |-> "none", fallback |-> FALSE,
          sources |-> "none", error |-> "none", via |-> "none",
          ended |-> FALSE, ends |-> 0]

\* res.status(st).json(...) / .end(): `via` records which part of the
\* handler produced it ("early", "inner", "outer", "main").
Reply(st, b, fb, src, err, v) ==
  [status |-> st, body |-> b, fallback |-> fb, sources |-> src,
   error |-> err, via |-> v, ended |-> TRUE, ends |-> 1]

ErrorReply(st, err, v) == Reply(st, "error", FALSE, "none", err, v)

\* The handler returns with response r.
Finish(i, r) ==
  /\ res' = [res EXCEPT ![i] = r]
  /\ pc' = [pc EXCEPT ![i] = "done"]

\* An external call is issued and the handler awaits it.
Await(i, call) ==
  /\ calls' = [calls EXCEPT ![i] = Append(@, call)]
  /\ pc' = [pc EXCEPT ![i] = call]

Completed(i, call) ==
  succeeded' = [succeeded EXCEPT ![i] = @ \cup {call}]

Issued(i, call) == \E k \in 1..Len(calls[i]) : calls[i][k] = call
IndexOf(i, call) == CHOOSE k \in 1..Len(calls[i]) : calls[i][k] = call
TimesCalled(i, call) == Cardinality({k \in 1..Len(calls[i]) : calls[i][k] = call})

----------------------------------------------------------------------------
\* connectToDatabase, the same in rag.js, mongodb-status.js and kag.js.

\* `if (cachedDb) return cachedDb;`
CacheHit == cachedDb # NoDb

\* connectToDatabase(uri) up to its first await.  On a hit it returns the
\* cached handle and the caller goes on to issue `next`; otherwise it
\* constructs a MongoClient and awaits client.connect().
ConnectToDatabase(i, next) ==
  IF CacheHit
    THEN /\ db' = [db EXCEPT ![i] = cachedDb]
         /\ hit' = [hit EXCEPT ![i] = TRUE]
         /\ Await(i, next)
         /\ UNCHANGED cacheVars
    ELSE /\ client' = [client EXCEPT ![i] = "connecting"]
         /\ Await(i, "connect")
         /\ UNCHANGED <<cachedDb, cachedClient, firstDb, db, hit>>

\* client.connect() resolved: `cachedDb = db; return db;`
StoreInCache(i) ==
  /\ client' = [client EXCEPT ![i] = "connected"]
  /\ cachedDb' = i
  /\ cachedClient' = IF endpoint = "rag" THEN i ELSE cachedClient
  /\ firstDb' = IF firstDb = NoDb THEN i ELSE firstDb
  /\ db' = [db EXCEPT ![i] = i]
  /\ Completed(i, "connect")

\* client.connect() rejected: connectToDatabase throws.
ConnectFailed(i) ==
  /\ client' = [client EXCEPT ![i] = "failed"]
  /\ UNCHANGED <<cachedDb, cachedClient, firstDb, db, succeeded>>

----------------------------------------------------------------------------
\* api/rag.js

\* An exit of the handler that touches nothing but the response.
Return(i, r) ==
  /\ Finish(i, r)
  /\ UNCHANGED <<cacheVars, db, hit, calls, succeeded, ragVars, streamVars>>

\* Outcomes of the embeddings request: fetch rejects; a non-ok status; a body
\* that is not JSON; JSON without data[0]; data[0] without an embedding
\* field; data[0].embedding present.
EmbeddingOutcomes == {"throw", "notOk", "badJson", "noData", "noEmbedding", "ok"}

\* The outcomes on which the try block of Step 2 throws.  Reading
\* `.embedding` of an object that lacks it yields undefined and throws nothing.
EmbeddingThrows(o) == o \in {"throw", "notOk", "badJson", "noData"}

\* generateFallbackResponse(query) as sent by the catch block of Step 2.
CannedReply == Reply(200, "canned", TRUE, "empty", "embedding", "inner")

\* Step 3 without its guard.
NeedsSearch_Always(fb) == TRUE

\* `if (!usedFallback)` of Step 3.
NeedsSearch(fb) == ~fb

NoPrompt == [unavailable |-> FALSE, context |-> "unset"]

\* A system message that always carries the "Context:" block.
SystemPrompt_AlwaysContext(fb, docs) ==
  [unavailable |-> fb,
   context |-> IF docs = "empty" THEN "emptyContext" ELSE "retrieved"]

\* The system message of Step 5: the notice depends on usedFallback, and the
\* "Context:" block is left out when usedFallback is set.
SystemPrompt(fb, docs) ==
  [unavailable |-> fb,
   context |-> IF fb THEN "none"
               ELSE IF docs = "empty" THEN "emptyContext" ELSE "retrieved"]

\* Steps 4 and 5: build the messages and fetch chat/completions.
SendToLlm(i, fb, docs) ==
  /\ prompt' = [prompt EXCEPT ![i] = SystemPrompt(fb, docs)]
  /\ Await(i, "chat")
  /\ UNCHANGED res

\* The catch block of Step 1: `usedFallback = true`, then Step 2 starts.
DbUnavailable(i) ==
  /\ usedFallback' = [usedFallback EXCEPT ![i] = TRUE]
  /\ Await(i, "embeddings")

\* From the entry of the handler to its first await.
RagEnter(i) ==
  /\ endpoint = "rag"
  /\ pc[i] = "idle"
  /\ \E m \in Methods, b \in Bodies :
       IF m = "OPTIONS" THEN Return(i, Reply(204, "empty", FALSE, "none", "none", "early"))
       ELSE IF m # "POST" THEN Return(i, ErrorReply(405, "method", "early"))
       ELSE IF ~env.key \/ ~env.uri THEN Return(i, ErrorReply(500, "config", "early"))
       ELSE IF b = "malformed" THEN Return(i, ErrorReply(400, "json", "inner"))
       \* destructuring null throws a TypeError: the outer catch
       ELSE IF b = "null" THEN Return(i, ErrorReply(500, "internal", "outer"))
       ELSE IF b = "noQuery" THEN Return(i, ErrorReply(400, "query", "early"))
       ELSE /\ ConnectToDatabase(i, "stats")
            /\ UNCHANGED <<succeeded, ragVars, res, streamVars>>
  /\ UNCHANGED <<endpoint, env, importVars, text>>

\* Step 1, after client.connect().
RagConnectDone(i) ==
  /\ endpoint = "rag"
  /\ pc[i] = "connect"
  /\ \E ok \in BOOLEAN :
       IF ok
         THEN /\ StoreInCache(i)
              /\ Await(i, "stats")
              /\ UNCHANGED usedFallback
         ELSE /\ ConnectFailed(i)
              /\ DbUnavailable(i)
  /\ UNCHANGED <<endpoint, env, hit, queryEmbedding, queryResult, prompt, res,
                 streamVars, importVars, text>>

\* Step 1, after documentsCollection.stats().
RagStatsDone(i) ==
  /\ endpoint = "rag"
  /\ pc[i] = "stats"
  /\ \E ok \in BOOLEAN :
       IF ok
         THEN /\ Completed(i, "stats")
              /\ Await(i, "embeddings")
              /\ UNCHANGED usedFallback
         ELSE /\ DbUnavailable(i)
              /\ UNCHANGED succeeded
  /\ UNCHANGED <<endpoint, env, cacheVars, db, hit, queryEmbedding, queryResult,
                 prompt, res, streamVars, importVars, text>>

\* Step 2, after the embeddings request, and the start of Step 3 or Step 5.
RagEmbedDone(i) ==
  /\ endpoint = "rag"
  /\ pc[i] = "embeddings"
  /\ \E o \in EmbeddingOutcomes :
       IF EmbeddingThrows(o)
         THEN /\ Finish(i, CannedReply)
              /\ UNCHANGED <<calls, succeeded, queryEmbedding, prompt>>
         ELSE /\ queryEmbedding' = [queryEmbedding EXCEPT ![i] =
                                      IF o = "ok" THEN "vector" ELSE "undefined"]
              /\ Completed(i, "embeddings")
              /\ IF NeedsSearch(usedFallback[i])
                   THEN /\ Await(i, "aggregate")
                        /\ UNCHANGED <<prompt, res>>
                   ELSE SendToLlm(i, usedFallback[i], queryResult[i])
  /\ UNCHANGED <<endpoint, env, cacheVars, db, hit, usedFallback, queryResult,
                 streamVars, importVars, text>>

\* What the handler would do if it issued the vector search again after a
\* failure (once), instead of going on without results.
SearchFailed_Retry(i) ==
  IF TimesCalled(i, "aggregate") < 2
    THEN /\ Await(i, "aggregate")
         /\ UNCHANGED <<queryResult, usedFallback, prompt, res>>
    ELSE /\ queryResult' = [queryResult EXCEPT ![i] = "empty"]
         /\ usedFallback' = [usedFallback EXCEPT ![i] = TRUE]
         /\ SendToLlm(i, TRUE, "empty")

\* The catch block of Step 3: no results, usedFallback, and on to Step 5.
SearchFailed(i) ==
  /\ queryResult' = [queryResult EXCEPT ![i] = "empty"]
  /\ usedFallback' = [usedFallback EXCEPT ![i] = TRUE]
  /\ SendToLlm(i, TRUE, "empty")

\* aggregate(...).toArray() rejects, or resolves to no documents or to some
\* (documents that hold the projected instruction, context and response).
SearchOutcomes == {"throw", "empty", "docs"}

\* Step 3, after aggregate(...).toArray(), then Steps 4 and 5.
RagSearchDone(i) ==
  /\ endpoint = "rag"
  /\ pc[i] = "aggregate"
  /\ \E o \in SearchOutcomes :
       IF o = "throw"
         THEN /\ SearchFailed(i)
              /\ UNCHANGED succeeded
         ELSE /\ queryResult' = [queryResult EXCEPT ![i] = o]
              /\ Completed(i, "aggregate")
              /\ SendToLlm(i, usedFallback[i], o)
              /\ UNCHANGED usedFallback
  /\ UNCHANGED <<endpoint, env, cacheVars, db, hit, queryEmbedding,
                 streamVars, importVars, text>>

\* The chat/completions request: "fail" is every way the try block of Step 5
\* throws (fetch rejects, a non-ok status, a body that is not JSON or holds no
\* choices[0].message); "ok" is an answer.
ChatOutcomes == {"fail", "ok"}

\* Step 6: the answer, the sources and the fallback flag.
AnswerReply(fb, docs) ==
  Reply(200, "answer", fb, IF docs = "empty" THEN "empty" ELSE "docs", "none", "main")

\* Step 5, after the chat/completions request, and Step 6.
RagChatDone(i) ==
  /\ endpoint = "rag"
  /\ pc[i] = "chat"
  /\ \E o \in ChatOutcomes :
       IF o = "ok"
         THEN /\ Completed(i, "chat")
              /\ Finish(i, AnswerReply(usedFallback[i], queryResult[i]))
         ELSE /\ Finish(i, ErrorReply(500, "llm", "inner"))
              /\ UNCHANGED succeeded
  /\ UNCHANGED <<endpoint, env, cacheVars, db, hit, calls, ragVars,
                 streamVars, importVars, text>>

----------------------------------------------------------------------------
\* api/mongodb-status.js

StatusEnter(i) ==
  /\ endpoint = "mongodb-status"
  /\ pc[i] = "idle"
  /\ \E m \in Methods :
       IF m = "OPTIONS" THEN Return(i, Reply(204, "empty", FALSE, "none", "none", "early"))
       ELSE IF m # "GET" THEN Return(i, ErrorReply(405, "method", "early"))
       ELSE IF ~env.uri THEN Return(i, ErrorReply(500, "config", "early"))
       ELSE /\ ConnectToDatabase(i, "ping")
            /\ UNCHANGED <<succeeded, ragVars, res, streamVars>>
  /\ UNCHANGED <<endpoint, env, importVars, text>>

\* The handler's catch block: status 500 with the error message.
StatusCatch(i) == Finish(i, ErrorReply(500, "connect", "outer"))

StatusConnectDone(i) ==
  /\ endpoint = "mongodb-status"
  /\ pc[i] = "connect"
  /\ \E ok \in BOOLEAN :
       IF ok
         THEN /\ StoreInCache(i)
              /\ Await(i, "ping")
              /\ UNCHANGED res
         ELSE /\ ConnectFailed(i)
              /\ StatusCatch(i)
              /\ UNCHANGED calls
  /\ UNCHANGED <<endpoint, env, hit, ragVars, streamVars, importVars, text>>

\* After db.command({ ping: 1 }).
StatusPingDone(i) ==
  /\ endpoint = "mongodb-status"
  /\ pc[i] = "ping"
  /\ \E ok \in BOOLEAN :
       IF ok
         THEN /\ Completed(i, "ping")
              /\ Finish(i, Reply(200, "status", FALSE, "none", "none", "main"))
         ELSE /\ StatusCatch(i)
              /\ UNCHANGED succeeded
  /\ UNCHANGED <<endpoint, env, cacheVars, db, hit, calls, ragVars, streamVars,
                 importVars, text>>

----------------------------------------------------------------------------
\* api/kag.js (src/unnamed/part_001)

\* A catch block that reports the error without setting the status.
KagCatch_NoStatus(i) == Finish(i, ErrorReply(200, "internal", "outer"))

\* The handler's catch block: 500 Internal Server Error.
KagCatch(i) == Finish(i, ErrorReply(500, "internal", "outer"))

\* The checks kag.js and kag-search.js make before they touch the database;
\* "go" when the request passes them all.  requestBody.query of null and
\* query.substring of a number throw a TypeError: the outer catch.
KagValidate(m, b) ==
  IF m = "OPTIONS" THEN Reply(204, "empty", FALSE, "none", "none", "early")
  ELSE IF m # "POST" THEN ErrorReply(405, "method", "early")
  ELSE IF ~env.uri THEN ErrorReply(500, "config", "early")
  ELSE IF b = "malformed" THEN ErrorReply(400, "json", "inner")
  ELSE IF b = "null" THEN ErrorReply(500, "internal", "outer")
  ELSE IF b = "noQuery" THEN ErrorReply(400, "query", "early")
  ELSE IF b = "numQuery" THEN ErrorReply(500, "internal", "outer")
  ELSE NoRes

KagEnter(i) ==
  /\ endpoint = "kag"
  /\ pc[i] = "idle"
  /\ \E m \in Methods, b \in Bodies :
       IF KagValidate(m, b) # NoRes
         THEN Return(i, KagValidate(m, b))
         ELSE /\ ConnectToDatabase(i, "find")
              /\ UNCHANGED <<succeeded, ragVars, res, streamVars>>
  /\ UNCHANGED <<endpoint, env, importVars, text>>

KagConnectDone(i) ==
  /\ endpoint = "kag"
  /\ pc[i] = "connect"
  /\ \E ok \in BOOLEAN :
       IF ok
         THEN /\ StoreInCache(i)
              /\ Await(i, "find")
              /\ UNCHANGED res
         ELSE /\ ConnectFailed(i)
              /\ KagCatch(i)
              /\ UNCHANGED calls
  /\ UNCHANGED <<endpoint, env, hit, ragVars, streamVars, importVars, text>>

\* After collection.find(...).toArray(): the examples, or the catch block.
KagFindDone(i) ==
  /\ endpoint = "kag"
  /\ pc[i] = "find"
  /\ \E ok \in BOOLEAN :
       IF ok
         THEN /\ Completed(i, "find")
              /\ Finish(i, Reply(200, "examples", FALSE, "none", "none", "main"))
         ELSE /\ KagCatch(i)
              /\ UNCHANGED succeeded
  /\ UNCHANGED <<endpoint, env, cacheVars, db, hit, calls, ragVars, streamVars,
                 importVars, text>>

----------------------------------------------------------------------------
\* api/kag-search.js (src/unnamed/part_000): a MongoClient per request.

\* The handler's catch block: 500 Internal Server Error; the client is left
\* as it is.
SearchCatch(i) == Finish(i, ErrorReply(500, "internal", "outer"))

SearchEnter(i) ==
  /\ endpoint = "kag-search"
  /\ pc[i] = "idle"
  /\ \E m \in Methods, b \in Bodies :
       IF KagValidate(m, b) # NoRes
         THEN Return(i, KagValidate(m, b))
         ELSE /\ client' = [client EXCEPT ![i] = "connecting"]
              /\ Await(i, "connect")
              /\ UNCHANGED <<cachedDb, cachedClient, firstDb, db, hit, succeeded,
                             ragVars, res, streamVars>>
  /\ UNCHANGED <<endpoint, env, importVars, text>>

SearchConnectDone(i) ==
  /\ endpoint = "kag-search"
  /\ pc[i] = "connect"
  /\ \E ok \in BOOLEAN :
       IF ok
         THEN /\ client' = [client EXCEPT ![i] = "connected"]
              /\ Completed(i, "connect")
              /\ Await(i, "find")
              /\ UNCHANGED res
         ELSE /\ client' = [client EXCEPT ![i] = "failed"]
              /\ SearchCatch(i)
              /\ UNCHANGED <<calls, succeeded>>
  /\ UNCHANGED <<endpoint, env, cachedDb, cachedClient, firstDb, db, hit,
                 ragVars, streamVars, importVars, text>>

SearchFindDone(i) ==
  /\ endpoint = "kag-search"
  /\ pc[i] = "find"
  /\ \E ok \in BOOLEAN :
       IF ok
         THEN /\ Completed(i, "find")
              /\ Await(i, "close")
              /\ UNCHANGED res
         ELSE /\ SearchCatch(i)
              /\ UNCHANGED <<calls, succeeded>>
  /\ UNCHANGED <<endpoint, env, cacheVars, db, hit, ragVars, streamVars,
                 importVars, text>>

\* After client.close(): the 200 response, unless close() or the writing of
\* the response throws.
SearchCloseDone(i) ==
  /\ endpoint = "kag-search"
  /\ pc[i] = "close"
  /\ \E o \in {"ok", "closeThrows", "writeThrows"} :
       IF o = "closeThrows"
         THEN /\ SearchCatch(i)
              /\ UNCHANGED <<client, succeeded>>
         ELSE /\ client' = [client EXCEPT ![i] = "closed"]
              /\ Completed(i, "close")
              /\ IF o = "ok"
                   THEN Finish(i, Reply(200, "examples", FALSE, "none", "none", "main"))
                   ELSE SearchCatch(i)
  /\ UNCHANGED <<endpoint, env, cachedDb, cachedClient, firstDb, db, hit, calls,
                 ragVars, streamVars, importVars, text>>

----------------------------------------------------------------------------
\* api/streaming.js

\* Body chunks are byte sequences.  "a" is an ASCII byte; "C3" "A9" is the
\* two-byte UTF-8 encoding of one character, which a chunk boundary may split.
Chunks == {<<"a", "C3", "A9">>, <<"C3">>}

\* chunk.toString(): UTF-8 decoding, an incomplete sequence decoding to U+FFFD.
RECURSIVE ChunkToString(_)
ChunkToString(bytes) ==
  IF bytes = <<>> THEN <<>>
  ELSE IF Head(bytes) = "a" THEN <<"a">> \o ChunkToString(Tail(bytes))
  ELSE IF Head(bytes) = "C3" /\ Len(bytes) >= 2 /\ bytes[2] = "A9"
    THEN <<"e-acute">> \o ChunkToString(Tail(Tail(bytes)))
  ELSE <<"U+FFFD">> \o ChunkToString(Tail(bytes))

\* An event without the blank line that ends it.
SseEvent_NoBlankLine(payload) == <<"data: ">> \o payload

\* `data: ${payload}\n\n`
SseEvent(payload) == <<"data: ">> \o payload \o <<"\n\n">>

DoneEvent == SseEvent(<<"[DONE]">>)

\* `data: ${JSON.stringify({ error: true, message })}\n\n`
ErrorEvent == SseEvent(<<"{error:true,message}">>)

\* res.write(event) with the res.end() that follows it forgotten.
WriteAndEnd_NoEnd(i, event, v) ==
  /\ written' = [written EXCEPT ![i] = Append(@, event)]
  /\ Finish(i, [res[i] EXCEPT !.body = "sse", !.via = v])

\* res.write(event); res.end(): the status code is whatever it was.
WriteAndEnd(i, event, v) ==
  /\ written' = [written EXCEPT ![i] = Append(@, event)]
  /\ Finish(i, [res[i] EXCEPT !.body = "sse", !.via = v, !.ended = TRUE,
                              !.ends = @ + 1])

\* The handler's catch block: an error event, then res.end().
StreamCatch(i) == WriteAndEnd(i, ErrorEvent, "outer")

StreamEnter(i) ==
  /\ endpoint = "streaming"
  /\ pc[i] = "idle"
  /\ \E m \in Methods, b \in Bodies :
       IF m = "OPTIONS" THEN Return(i, Reply(204, "empty", FALSE, "none", "none", "early"))
       ELSE IF m # "POST" THEN Return(i, ErrorReply(405, "method", "early"))
       ELSE IF b = "malformed"
         THEN /\ StreamCatch(i)
              /\ UNCHANGED <<calls, delivered, upstream>>
       ELSE IF ~env.key
         THEN /\ Finish(i, ErrorReply(500, "config", "early"))
              /\ UNCHANGED <<calls, streamVars>>
       ELSE /\ Await(i, "fetch")
            /\ UNCHANGED <<res, streamVars>>
  /\ UNCHANGED <<endpoint, env, cacheVars, db, hit, succeeded, ragVars,
                 importVars, text>>

\* After fetch(chat/completions): a rejection, a non-ok status (the handler
\* awaits response.text()), or a body stream whose listeners are registered.
StreamFetchDone(i) ==
  /\ endpoint = "streaming"
  /\ pc[i] = "fetch"
  /\ \E o \in {"throw", "notOk", "ok"} :
       IF o = "throw"
         THEN /\ StreamCatch(i)
              /\ UNCHANGED <<calls, succeeded, delivered, upstream>>
       ELSE IF o = "notOk"
         THEN /\ Await(i, "text")
              /\ UNCHANGED <<res, succeeded, streamVars>>
       ELSE /\ Completed(i, "fetch")
            /\ upstream' = [upstream EXCEPT ![i] = "flowing"]
            /\ pc' = [pc EXCEPT ![i] = "stream"]
            /\ UNCHANGED <<calls, res, written, delivered>>
  /\ UNCHANGED <<endpoint, env, cacheVars, db, hit, ragVars, importVars, text>>

\* After response.text() of a non-ok response: the error goes out as an event.
StreamTextDone(i) ==
  /\ endpoint = "streaming"
  /\ pc[i] = "text"
  /\ \E ok \in BOOLEAN :
       IF ok THEN WriteAndEnd(i, ErrorEvent, "main") ELSE StreamCatch(i)
  /\ UNCHANGED <<endpoint, env, cacheVars, db, hit, calls, succeeded, ragVars,
                 delivered, upstream, importVars, text>>

\* response.body is a Readable in flowing mode: it emits 'data' any number
\* of times and then 'end' or 'error', after which it emits neither again.
\* stream.on('data', ...)
OnData(i) ==
  /\ endpoint = "streaming"
  /\ pc[i] = "stream"
  /\ upstream[i] = "flowing"
  /\ Len(delivered[i]) < MaxChunks
  /\ \E chunk \in Chunks :
       /\ delivered' = [delivered EXCEPT ![i] = Append(@, chunk)]
       /\ written' = [written EXCEPT ![i] = Append(@, SseEvent(ChunkToString(chunk)))]
  /\ UNCHANGED <<endpoint, env, cacheVars, pc, db, hit, calls, succeeded,
                 ragVars, res, upstream, importVars, text>>

\* stream.on('end', ...)
OnEnd(i) ==
  /\ endpoint = "streaming"
  /\ pc[i] = "stream"
  /\ upstream[i] = "flowing"
  /\ upstream' = [upstream EXCEPT ![i] = "ended"]
  /\ WriteAndEnd(i, DoneEvent, "main")
  /\ UNCHANGED <<endpoint, env, cacheVars, db, hit, calls, succeeded, ragVars,
                 delivered, importVars, text>>

\* stream.on('error', ...)
OnError(i) ==
  /\ endpoint = "streaming"
  /\ pc[i] = "stream"
  /\ upstream[i] = "flowing"
  /\ upstream' = [upstream EXCEPT ![i] = "errored"]
  /\ WriteAndEnd(i, ErrorEvent, "main")
  /\ UNCHANGED <<endpoint, env, cacheVars, db, hit, calls, succeeded, ragVars,
                 delivered, importVars, text>>

----------------------------------------------------------------------------
\* The server: a freshly loaded module and NumReq invocations not yet begun.

ImportOff ==
  /\ script = "none"
  /\ ipc = "off"
  /\ importedCount = 0 /\ errorCount = 0
  /\ batch = 0 /\ count = 0
  /\ insertCalls = 0 /\ lastInsert = 0
  /\ run = [client |-> "none", indexed |-> FALSE, declined |-> FALSE]

ServerFresh ==
  /\ cachedDb = NoDb
  /\ cachedClient = NoDb
  /\ firstDb = NoDb
  /\ client = [i \in Reqs |-> "none"]
  /\ db = [i \in Reqs |-> NoDb]
  /\ hit = [i \in Reqs |-> FALSE]
  /\ usedFallback = [i \in Reqs |-> FALSE]
  /\ queryEmbedding = [i \in Reqs |-> "unset"]
  /\ queryResult = [i \in Reqs |-> "empty"]
  /\ calls = [i \in Reqs |-> <<>>]
  /\ succeeded = [i \in Reqs |-> {}]
  /\ prompt = [i \in Reqs |-> NoPrompt]
  /\ res = [i \in Reqs |-> NoRes]
  /\ written = [i \in Reqs |-> <<>>]
  /\ delivered = [i \in Reqs |-> <<>>]
  /\ upstream = [i \in Reqs |-> "none"]

Init ==
  /\ endpoint \in Endpoints
  /\ env \in [key : BOOLEAN, uri : BOOLEAN]
  /\ pc = [i \in Reqs |-> "idle"]
  /\ ServerFresh
  /\ ImportOff
  /\ text = "none"

Next ==
  \E i \in Reqs :
    \/ RagEnter(i) \/ RagConnectDone(i) \/ RagStatsDone(i)
    \/ RagEmbedDone(i) \/ RagSearchDone(i) \/ RagChatDone(i)
    \/ StatusEnter(i) \/ StatusConnectDone(i) \/ StatusPingDone(i)
    \/ KagEnter(i) \/ KagConnectDone(i) \/ KagFindDone(i)
    \/ SearchEnter(i) \/ SearchConnectDone(i) \/ SearchFindDone(i)
    \/ SearchCloseDone(i)
    \/ StreamEnter(i) \/ StreamFetchDone(i) \/ StreamTextDone(i)
    \/ OnData(i) \/ OnEnd(i) \/ OnError(i)

Spec == Init /\ [][Next]_vars

----------------------------------------------------------------------------
\* data-import/import-to-mongodb.js and the import script of
\* src/unnamed/part_000.  The file is read one line per step; what the next
\* line holds is an input of the step.  batch stands for batch.length.

Scripts == {"import-to-mongodb", "part_000"}

\* `const BATCH_SIZE = 1000;`
BATCH_SIZE == 1000
\* `const batchSize = 1000;` (part_000)
batchSize == 1000
\* `if (errorCount > 100)`
MaxErrors == 100

\* `if (batch.length >= BATCH_SIZE)`
BatchFull(n) == n >= (IF script = "part_000" THEN batchSize ELSE BATCH_SIZE)

\* The abort test, off by one.
TooManyErrors_OffByOne(e) == e > MaxErrors + 1

\* `if (errorCount > 100) { ...; break; }`
TooManyErrors(e) == e > MaxErrors

Answers == {"y", "Y", "n", "yes", ""}

\* answer.toLowerCase()
ToLowerCase(a) == IF a = "Y" THEN "y" ELSE a

\* The test of the answer accepting any answer that starts with y.
Cancelled_AcceptsYes(a) == ToLowerCase(a) \notin {"y", "yes"}

\* `if (answer.toLowerCase() !== 'y') return;`
Cancelled(a) == ToLowerCase(a) # "y"

NewRun == [client |-> "none", indexed |-> FALSE, declined |-> FALSE]

\* The catch block and `return` both lead to `finally { await client.close() }`.
ToFinally == ipc' = "close"

\* `await collection.insertMany(batch)` with batch.length = n.
InsertMany(n, at) ==
  /\ insertCalls' = insertCalls + 1
  /\ lastInsert' = n
  /\ ipc' = at

\* After the for-await loop: `if (batch.length > 0) insertMany(batch)`, else
\* on to collection.indexes() (import-to-mongodb.js) or to the finally block.
AfterLoop(n) ==
  IF n > 0
    THEN InsertMany(n, "flush")
    ELSE /\ ipc' = IF script = "part_000" THEN "close" ELSE "indexes"
         /\ UNCHANGED <<insertCalls, lastInsert>>

\* new MongoClient(...); await client.connect()
ImportStart ==
  /\ ipc = "start"
  /\ ipc' = "connect"
  /\ run' = [run EXCEPT !.client = "connecting"]
  /\ UNCHANGED <<script, importedCount, errorCount, batch, count,
                 insertCalls, lastInsert, serverVars, text>>

ImportConnectDone ==
  /\ ipc = "connect"
  /\ \E ok \in BOOLEAN :
       IF ok
         THEN /\ run' = [run EXCEPT !.client = "open"]
              /\ ipc' = IF script = "part_000" THEN "index" ELSE "count"
         ELSE /\ run' = [run EXCEPT !.client = "failed"]
              /\ ToFinally
  /\ UNCHANGED <<script, importedCount, errorCount, batch, count,
                 insertCalls, lastInsert, serverVars, text>>

\* After collection.countDocuments(): a non-empty collection asks the user.
ImportCountDone ==
  /\ ipc = "count"
  /\ \E o \in {"throw", "empty", "nonempty"} :
       IF o = "throw" THEN ToFinally
       ELSE ipc' = IF o = "nonempty" THEN "prompt" ELSE "index"
  /\ UNCHANGED <<script, importedCount, errorCount, batch, count,
                 insertCalls, lastInsert, run, serverVars, text>>

\* After promptUser(...): the answer decides whether the import goes on.
\* run.declined records that the answer typed was neither y nor Y.
ImportPromptDone ==
  /\ ipc = "prompt"
  /\ \E a \in Answers :
       /\ run' = [run EXCEPT !.declined = a \notin {"y", "Y"}]
       /\ IF Cancelled(a) THEN ToFinally ELSE ipc' = "index"
  /\ UNCHANGED <<script, importedCount, errorCount, batch, count,
                 insertCalls, lastInsert, serverVars, text>>

\* After collection.createIndex(...): the file is opened and the loop starts.
ImportIndexDone ==
  /\ ipc = "index"
  /\ \E ok \in BOOLEAN :
       IF ok
         THEN /\ run' = [run EXCEPT !.indexed = TRUE]
              /\ ipc' = "read"
         ELSE ToFinally /\ UNCHANGED run
  /\ UNCHANGED <<script, importedCount, errorCount, batch, count,
                 insertCalls, lastInsert, serverVars, text>>

LineKinds == {"eof", "blank", "valid", "invalid"}

\* The inputs the bound admits: the file ends once the loop has called
\* insertMany MaxInserts times.
Admitted(kind) == kind # "eof" => insertCalls < MaxInserts

\* One iteration of `for await (const line of rl)` in import-to-mongodb.js,
\* up to the next await; or the end of the loop.  (lineCount, which is only
\* logged, is left out: a blank line changes nothing else.)
ImportReadLine ==
  /\ script = "import-to-mongodb"
  /\ ipc = "read"
  /\ \E kind \in LineKinds :
       /\ Admitted(kind)
       /\ IF kind = "eof"
            THEN /\ AfterLoop(batch)
                 /\ UNCHANGED <<errorCount, batch>>
          ELSE IF kind = "blank"
            THEN UNCHANGED <<ipc, errorCount, batch, insertCalls, lastInsert>>
          ELSE IF kind = "valid"
            THEN /\ batch' = batch + 1
                 /\ IF BatchFull(batch + 1)
                      THEN InsertMany(batch + 1, "insert")
                      ELSE UNCHANGED <<ipc, insertCalls, lastInsert>>
                 /\ UNCHANGED errorCount
          ELSE /\ errorCount' = errorCount + 1
               /\ IF TooManyErrors(errorCount + 1)
                    THEN AfterLoop(batch)
                    ELSE UNCHANGED <<ipc, insertCalls, lastInsert>>
               /\ UNCHANGED batch
  /\ UNCHANGED <<script, importedCount, count, run, serverVars, text>>

\* After the insertMany of the loop.  It is awaited inside the try block of
\* the loop body, so its rejection lands in the catch that counts errors, and
\* `batch = []` is skipped.
ImportInsertDone ==
  /\ script = "import-to-mongodb"
  /\ ipc = "insert"
  /\ \E ok \in BOOLEAN :
       IF ok
         THEN /\ importedCount' = importedCount + batch
              /\ batch' = 0
              /\ ipc' = "read"
              /\ UNCHANGED <<errorCount, insertCalls, lastInsert>>
         ELSE /\ errorCount' = errorCount + 1
              /\ IF TooManyErrors(errorCount + 1)
                   THEN AfterLoop(batch)
                   ELSE ipc' = "read" /\ UNCHANGED <<insertCalls, lastInsert>>
              /\ UNCHANGED <<importedCount, batch>>
  /\ UNCHANGED <<script, count, run, serverVars, text>>

\* One iteration of the loop of part_000: blank lines are skipped, a line
\* that does not parse is logged, and so is a rejected insertMany.
PartReadLine ==
  /\ script = "part_000"
  /\ ipc = "read"
  /\ \E kind \in LineKinds :
       /\ Admitted(kind)
       /\ IF kind = "eof"
            THEN AfterLoop(batch) /\ UNCHANGED <<batch, count>>
          ELSE IF kind = "valid"
            THEN /\ batch' = batch + 1
                 /\ count' = count + 1
                 /\ IF BatchFull(batch + 1)
                      THEN InsertMany(batch + 1, "insert")
                      ELSE UNCHANGED <<ipc, insertCalls, lastInsert>>
          ELSE UNCHANGED <<ipc, batch, count, insertCalls, lastInsert>>
  /\ UNCHANGED <<script, importedCount, errorCount, run, serverVars, text>>

PartInsertDone ==
  /\ script = "part_000"
  /\ ipc = "insert"
  /\ \E ok \in BOOLEAN :
       /\ batch' = IF ok THEN 0 ELSE batch
       /\ ipc' = "read"
  /\ UNCHANGED <<script, importedCount, errorCount, count, insertCalls,
                 lastInsert, run, serverVars, text>>

\* After the insertMany of the remaining documents; its rejection is caught
\* by the outer catch.
ImportFlushDone ==
  /\ ipc = "flush"
  /\ \E ok \in BOOLEAN :
       IF ok
         THEN /\ importedCount' = IF script = "part_000" THEN importedCount
                                  ELSE importedCount + batch
              /\ ipc' = IF script = "part_000" THEN "close" ELSE "indexes"
         ELSE ToFinally /\ UNCHANGED importedCount
  /\ UNCHANGED <<script, errorCount, batch, count, insertCalls,
                 lastInsert, run, serverVars, text>>

\* After collection.indexes(): the finally block, whether it threw or not.
ImportIndexesDone ==
  /\ ipc = "indexes"
  /\ ToFinally
  /\ UNCHANGED <<script, importedCount, errorCount, batch, count,
                 insertCalls, lastInsert, run, serverVars, text>>

\* finally { await client.close(); }
ImportCloseDone ==
  /\ ipc = "close"
  /\ ipc' = "done"
  /\ run' = [run EXCEPT !.client = "closed"]
  /\ UNCHANGED <<script, importedCount, errorCount, batch, count,
                 insertCalls, lastInsert, serverVars, text>>

ServerOff ==
  /\ endpoint = "none"
  /\ env = [key |-> FALSE, uri |-> FALSE]
  /\ pc = [i \in Reqs |-> "idle"]
  /\ ServerFresh

InitImport ==
  /\ script \in Scripts
  /\ ipc = "start"
  /\ importedCount = 0 /\ errorCount = 0
  /\ batch = 0 /\ count = 0
  /\ insertCalls = 0 /\ lastInsert = 0
  /\ run = NewRun
  /\ ServerOff
  /\ text = "none"

NextImport ==
  \/ ImportStart \/ ImportConnectDone \/ ImportCountDone \/ ImportPromptDone
  \/ ImportIndexDone \/ ImportReadLine \/ ImportInsertDone
  \/ PartReadLine \/ PartInsertDone
  \/ ImportFlushDone \/ ImportIndexesDone \/ ImportCloseDone

SpecImport == InitImport /\ [][NextImport]_vars

----------------------------------------------------------------------------
\* utilities/kag-processor.js (src/unnamed/part_000).  A string is the
\* sequence of its characters; a fixed piece of text that holds no newline
\* is one element.

MaxLen == 4
MaxExamples == 2

\* Characters of a system prompt: a letter, a line feed, a carriage return.
Chars == {"a", "\n", "\r"}
Prompts == UNION {[1..k -> Chars] : k \in 0..MaxLen}

\* Documents of the examples collection; an output may itself hold a
\* paragraph break.
ExampleDocs == {[input |-> <<"a">>, output |-> <<"\n", "\n">>],
                [input |-> <<>>, output |-> <<"a">>]}
\* The examples argument: null, or an array of documents.
ExampleLists ==
  {[isNull |-> TRUE, items |-> <<>>]} \cup
  {[isNull |-> FALSE, items |-> l] :
     l \in UNION {[1..k -> ExampleDocs] : k \in 0..MaxExamples}}

\* "\n\n"
ParagraphBreak == <<"\n", "\n">>

DigitChars == <<"0", "1", "2", "3", "4", "5", "6", "7", "8", "9">>

\* `${index + 1}`: the decimal digits of a positive number.
RECURSIVE Decimal(_)
Decimal(n) ==
  IF n < 10 THEN <<DigitChars[n + 1]>>
  ELSE Decimal(n \div 10) \o <<DigitChars[(n % 10) + 1]>>

\* `!examples || examples.length === 0`
NoExamples(examples) == examples.isNull \/ Len(examples.items) = 0

\* examples.forEach((example, index) => { formatted += ... }), from index on.
RECURSIVE ForEach(_, _)
ForEach(items, index) ==
  IF index >= Len(items) THEN <<>>
  ELSE <<"EXAMPLE ">> \o Decimal(index + 1) \o <<":", "\n">>
       \o <<"User: ">> \o items[index + 1].input \o <<"\n">>
       \o <<"Assistant: ">> \o items[index + 1].output \o ParagraphBreak
       \o ForEach(items, index + 1)

formatKagExamples(examples) ==
  IF NoExamples(examples) THEN <<>>
  ELSE ParagraphBreak \o <<"## RELEVANT EXAMPLES:">> \o ParagraphBreak
       \o ForEach(examples.items, 0)
       \o <<"## END OF EXAMPLES">> \o ParagraphBreak

\* The 0-based positions at which pat occurs in str.
Occurrences(str, pat) ==
  {k \in 0..(Len(str) - Len(pat)) : SubSeq(str, k + 1, k + Len(pat)) = pat}

\* The search taking the last occurrence.
indexOf_Last(str, pat) ==
  IF Occurrences(str, pat) = {} THEN -1
  ELSE CHOOSE k \in Occurrences(str, pat) :
         \A j \in Occurrences(str, pat) : j <= k

\* String.prototype.indexOf: the first occurrence, or -1.
indexOf(str, pat) ==
  IF Occurrences(str, pat) = {} THEN -1
  ELSE CHOOSE k \in Occurrences(str, pat) :
         \A j \in Occurrences(str, pat) : k <= j

\* String.prototype.substring(start, end), for 0 <= start <= end <= length.
substring(str, start, end) == SubSeq(str, start + 1, end)

augmentPromptWithKagExamples(systemPrompt, examples) ==
  IF NoExamples(examples) THEN systemPrompt
  ELSE LET formattedExamples == formatKagExamples(examples)
           firstParagraphEnd == indexOf(systemPrompt, ParagraphBreak)
       IN IF firstParagraphEnd # -1
            THEN substring(systemPrompt, 0, firstParagraphEnd + 2)
                 \o formattedExamples
                 \o substring(systemPrompt, firstParagraphEnd + 2,
                              Len(systemPrompt))
            ELSE systemPrompt \o ParagraphBreak \o formattedExamples

\* A call of one of the two exported functions, or the response formatting
\* of api/kag.js, which augments a non-empty systemPrompt and otherwise
\* formats the examples alone.
Call(name, out) ==
  /\ text.called = "none"
  /\ text' = [text EXCEPT !.called = name, !.out = out]
  /\ UNCHANGED <<serverVars, importVars>>

CallFormat == Call("format", formatKagExamples(text.examples))

CallAugment ==
  Call("augment", augmentPromptWithKagExamples(text.systemPrompt, text.examples))

KagFormatResponse ==
  /\ ~text.examples.isNull
  /\ IF text.systemPrompt # <<>>
       THEN Call("kag", augmentPromptWithKagExamples(text.systemPrompt,
                                                     text.examples))
       ELSE Call("kag", formatKagExamples(text.examples))

InitKag ==
  /\ text \in [systemPrompt : Prompts, examples : ExampleLists,
               called : {"none"}, out : {<<>>}]
  /\ ServerOff
  /\ ImportOff

NextKag == CallFormat \/ CallAugment \/ KagFormatResponse

SpecKag == InitKag /\ [][NextKag]_vars

----------------------------------------------------------------------------
\* Properties.

Done(i) == pc[i] = "done"

\* C1: in a module that caches a database handle, once a connectToDatabase
\* call has succeeded, cachedDb stays that handle (never cleared, never
\* reassigned), and every call that finds the cache set returns that same
\* handle and constructs no client.
C1_CacheKeepsFirstHandle ==
  (endpoint \in CachingEndpoints /\ firstDb # NoDb) =>
    /\ cachedDb = firstDb
    /\ \A i \in Reqs : hit[i] => (db[i] = firstDb /\ client[i] = "none")

\* C2: for any interleaving of concurrent invocations, at most one
\* MongoClient is connected in total, and all invocations that received a
\* database handle received the same one.
C2_OneClientOneHandle ==
  endpoint \in CachingEndpoints =>
    /\ Cardinality({i \in Reqs : client[i] = "connected"}) <= 1
    /\ \A i, j \in Reqs : (db[i] # NoDb /\ db[j] # NoDb) => db[i] = db[j]

\* The embeddings call threw, returned a non-ok status, or returned data
\* without an embedding.
EmbeddingGenerationFailed(i) ==
  Issued(i, "embeddings") /\ pc[i] # "embeddings" /\ queryEmbedding[i] # "vector"

\* C3: a rag request that passed validation is answered with the canned
\* fallback (200, no sources, fallback true, the embedding error) if and only
\* if embedding generation failed.
C3_CannedIffEmbeddingFailed ==
  \A i \in Reqs :
    (endpoint = "rag" /\ Done(i) /\ Issued(i, "embeddings")) =>
      (res[i] = CannedReply <=> EmbeddingGenerationFailed(i))

\* C4: in a rag request the chat-completion call is issued only after the
\* embeddings call succeeded; the vector search is issued only after the
\* embeddings call, the database connection and the stats call succeeded; a
\* vector search is issued after the embeddings call and is over before the
\* prompt is assembled and the chat-completion call is issued.
C4_PipelineOrder ==
  \A i \in Reqs :
    endpoint = "rag" =>
      /\ Issued(i, "chat") => "embeddings" \in succeeded[i]
      /\ Issued(i, "aggregate") =>
           /\ "embeddings" \in succeeded[i]
           /\ db[i] # NoDb
           /\ "stats" \in succeeded[i]
           /\ IndexOf(i, "embeddings") < IndexOf(i, "aggregate")
      /\ (Issued(i, "aggregate") /\ Issued(i, "chat")) =>
           IndexOf(i, "aggregate") < IndexOf(i, "chat")
      /\ pc[i] = "aggregate" => (~Issued(i, "chat") /\ prompt[i] = NoPrompt)
      /\ prompt[i] # NoPrompt <=> Issued(i, "chat")

C4_Witness ==
  \E i \in Reqs :
    /\ endpoint = "rag" /\ Done(i)
    /\ calls[i] = <<"connect", "stats", "embeddings", "aggregate", "chat">>
    /\ res[i].body = "answer" /\ res[i].sources = "docs"

\* C5: within one rag request the embeddings endpoint, the vector search and
\* the chat-completions endpoint are each called at most once.
C5_NoRetry ==
  \A i \in Reqs :
    endpoint = "rag" =>
      \A c \in {"embeddings", "aggregate", "chat"} : TimesCalled(i, c) <= 1

\* A finished request whose vector search and chat completion both failed.
C5_Witness ==
  \E i \in Reqs :
    /\ endpoint = "rag" /\ Done(i)
    /\ Issued(i, "aggregate") /\ "aggregate" \notin succeeded[i]
    /\ Issued(i, "chat") /\ "chat" \notin succeeded[i]
    /\ res[i].status = 500

\* C6 as stated: whatever a handler's outer catch block caught, the response
\* carries a 4xx or 5xx status.
C6_OuterCatchIsErrorStatus ==
  \A i \in Reqs : res[i].via = "outer" => res[i].status \in 400..599

\* C6 amended: the outer catch block of rag, mongodb-status, kag and
\* kag-search answers with status 500; the outer catch block of streaming
\* sets no status: it writes one error event and ends the response, the
\* status staying 200.
C6_OuterCatchByHandler ==
  \A i \in Reqs :
    res[i].via = "outer" =>
      IF endpoint = "streaming"
        THEN /\ res[i].status = 200
             /\ res[i].ended
             /\ written[i] = <<ErrorEvent>>
        ELSE /\ res[i].status = 500
             /\ res[i].body = "error"
             /\ res[i].ended

\* The upstream fetch of a streaming request was rejected.
C6_Witness ==
  \E i \in Reqs :
    /\ endpoint = "streaming" /\ Done(i)
    /\ calls[i] = <<"fetch">> /\ "fetch" \notin succeeded[i]
    /\ res[i].via = "outer"

\* The events a run of chunks is to produce: 'data: <chunk>' and a blank line
\* for each chunk, in order.
ExpectedEvents(chunks) ==
  [k \in 1..Len(chunks) |-> <<"data: ">> \o ChunkToString(chunks[k]) \o <<"\n\n">>]

\* C7: in a streaming request whose upstream response is ok, the events
\* written are exactly one per body chunk, in arrival order; when the body
\* ends they are followed by exactly one 'data: [DONE]' event and the
\* response is ended, and not before.
C7_ChunksForwardedInOrder ==
  \A i \in Reqs :
    (endpoint = "streaming" /\ upstream[i] \in {"flowing", "ended"}) =>
      /\ upstream[i] = "flowing" =>
           (written[i] = ExpectedEvents(delivered[i]) /\ ~res[i].ended)
      /\ upstream[i] = "ended" =>
           /\ written[i] = ExpectedEvents(delivered[i])
                             \o << <<"data: ", "[DONE]", "\n\n">> >>
           /\ res[i].ended

C7_Witness ==
  \E i \in Reqs :
    /\ endpoint = "streaming" /\ upstream[i] = "ended"
    /\ Len(delivered[i]) = 2 /\ delivered[i][1] # delivered[i][2]
    /\ Len(written[i]) = 3

\* C8: every insertMany call of the import scripts receives a non-empty batch
\* of at most BATCH_SIZE documents.
C8_BatchesAtMostBatchSize ==
  insertCalls > 0 => (lastInsert >= 1 /\ lastInsert <= BATCH_SIZE)

\* The database connection, the stats call or the vector search failed.
DatabaseFailed(i) ==
  \/ client[i] = "failed"
  \/ Issued(i, "stats") /\ "stats" \notin succeeded[i]
  \/ Issued(i, "aggregate") /\ "aggregate" \notin succeeded[i]

\* C9: a rag request whose database step failed while the embeddings and
\* chat calls succeeded called both endpoints, sent a system prompt without
\* retrieved context, and is answered 200 with the model's answer and
\* fallback true.
C9_DatabaseFailureFallsBack ==
  \A i \in Reqs :
    (/\ endpoint = "rag" /\ Done(i) /\ DatabaseFailed(i)
     /\ "embeddings" \in succeeded[i] /\ "chat" \in succeeded[i]) =>
      /\ prompt[i] = [unavailable |-> TRUE, context |-> "none"]
      /\ res[i] = Reply(200, "answer", TRUE, "empty", "none", "main")

\* The vector search of a finished request failed and the model answered.
C9_Witness ==
  \E i \in Reqs :
    /\ endpoint = "rag" /\ Done(i)
    /\ Issued(i, "aggregate") /\ "aggregate" \notin succeeded[i]
    /\ "chat" \in succeeded[i]
    /\ res[i].body = "answer"

\* C10: errorCount never exceeds 101, and once it exceeds 100 the loop is
\* left for good: no further line is read or parsed and errorCount stays.
C10_AbortAfter101Errors ==
  /\ [](errorCount <= MaxErrors + 1)
  /\ [][errorCount > MaxErrors =>
          (errorCount' = errorCount /\ ipc' \notin {"read", "insert"})]_vars

\* The import was aborted with documents still in the batch.
C10_Witness ==
  /\ script = "import-to-mongodb"
  /\ errorCount = MaxErrors + 1
  /\ ipc = "flush" /\ batch > 0

\* C11: when the collection already holds documents and the answer to the
\* prompt is neither y nor Y, the import is cancelled: control goes straight
\* to the finally block, no index is created, no line is read, insertMany is
\* never called, and the run ends with the client closed.
C11_DeclinedImportOnlyCloses ==
  run.declined =>
    /\ ipc \in {"close", "done"}
    /\ ~run.indexed
    /\ insertCalls = 0 /\ lastInsert = 0
    /\ batch = 0 /\ importedCount = 0 /\ errorCount = 0
    /\ ipc = "done" => run.client = "closed"

\* A declined import that has run to its end.
C11_Witness ==
  /\ script = "import-to-mongodb"
  /\ run.declined
  /\ ipc = "done" /\ run.client = "closed"

\* C12: a kag-search request that has finished leaves no open MongoClient
\* behind: a client it connected has been closed, whether the connect, the
\* text search or the writing of the response failed or succeeded.
C12_ClientClosedOnEveryPath ==
  \A i \in Reqs :
    (endpoint = "kag-search" /\ Done(i)) => client[i] # "connected"

\* The system prompt has a paragraph break at 1-based position k.
BreakAt(str, k) == k < Len(str) /\ str[k] = "\n" /\ str[k + 1] = "\n"

\* C13: augmentPromptWithKagExamples returns systemPrompt unchanged for null
\* or empty examples; otherwise, when systemPrompt has a paragraph break, the
\* result is the text up to and including the first break, then
\* formatKagExamples(examples), then the rest, and deleting the inserted
\* block gives back systemPrompt; without a break it is systemPrompt, a
\* blank line, then the formatted block.
C13_AugmentPreservesPrompt ==
  text.called = "augment" =>
    LET str == text.systemPrompt
        block == formatKagExamples(text.examples)
        firsts == {k \in 1..Len(str) :
                     BreakAt(str, k) /\ \A j \in 1..(k - 1) : ~BreakAt(str, j)}
    IN IF text.examples.isNull \/ text.examples.items = <<>>
         THEN text.out = str
       ELSE IF firsts # {}
         THEN \A k \in firsts :
                /\ text.out = SubSeq(str, 1, k + 1) \o block
                               \o SubSeq(str, k + 2, Len(str))
                /\ SubSeq(text.out, 1, k + 1)
                     \o SubSeq(text.out, k + 2 + Len(block), Len(text.out))
                   = str
       ELSE text.out = str \o <<"\n", "\n">> \o block

\* A prompt with two paragraph breaks and text around them, augmented with
\* two examples.
C13_Witness ==
  /\ text.called = "augment"
  /\ text.systemPrompt = <<"\n", "\n", "\n", "a">>
  /\ Len(text.examples.items) = 2
  /\ text.out # text.systemPrompt

====
